---- MODULE Spec2Model ----
(***************************************************************************)
(* Model of the SHT3x humidity/temperature sensor driver (package sht3x).  *)
(*                                                                         *)
(* The driver is synchronous: every exported method runs to completion on  *)
(* the caller's goroutine.  Each method is one action; what it did on the  *)
(* bus during the call is kept in `wire`, a log of the transport writes,   *)
(* sleeps and reads in the order they happened, each stamped with the      *)
(* time (microseconds since the call began) at which it was issued (t0)    *)
(* and at which it returned (t1).                                          *)
(*                                                                         *)
(* Bytes are 0..255, a []byte is a sequence (nil and empty are both <<>>), *)
(* a float32 is kept exactly as sign * n * 2^e (see the float32 section),  *)
(* and a float32 that round32 has brought to two decimals is kept as the   *)
(* integer number of hundredths it stands for.                             *)
(***************************************************************************)
EXTENDS Integers, Sequences, FiniteSets, TLC

VARIABLES
    v,      \* the SHT3X session struct (the receiver of every method)
    pre,    \* the session as it was when the last call began
    call,   \* the last call: [op, precision, blockCount, raw, bit]
            \*   (raw, bit: the word and the flipped bit of a checksum or
            \*   conversion trial)
    dev,    \* what the transport did during the last call (its inputs)
    wire,   \* log of the bus events of the last call
    ret     \* what the last call returned

vars == <<v, pre, call, dev, wire, ret>>

---------------------------------------------------------------------------
(* Bounds of the model *)

MaxPrecisionArg == 4    \* precision arguments range over -1..MaxPrecisionArg
MaxJitter == 1          \* a sleep overshoots by 0..MaxJitter microseconds
MaxBlockCount == 3      \* readDataWithCRCCheck is called with 0..MaxBlockCount

---------------------------------------------------------------------------
(* Command byte sequences *)

CMD_SINGLE_MEASURE_HIGH_CSE   == <<44, 6>>     \* 0x2C 0x06
CMD_SINGLE_MEASURE_MEDIUM_CSE == <<44, 13>>    \* 0x2C 0x0D
CMD_SINGLE_MEASURE_LOW_CSE    == <<44, 16>>    \* 0x2C 0x10
CMD_SINGLE_MEASURE_HIGH       == <<36, 0>>     \* 0x24 0x00
CMD_SINGLE_MEASURE_MEDIUM     == <<36, 11>>    \* 0x24 0x0B
CMD_SINGLE_MEASURE_LOW        == <<36, 22>>    \* 0x24 0x16
CMD_PERIOD_FETCH              == <<224, 0>>    \* 0xE0 0x00
CMD_ART                       == <<43, 50>>    \* 0x2B 0x32
CMD_BREAK                     == <<48, 147>>   \* 0x30 0x93
CMD_RESET                     == <<48, 162>>   \* 0x30 0xA2

(* MeasureRepeatability is an int; the three named values are iota + 1. *)
RepeatabilityLow    == 1
RepeatabilityMedium == 2
RepeatabilityHigh   == 3

(* GetMeasureTime, in microseconds. *)
GetMeasureTime_HighAsMedium(p) ==
    CASE p = RepeatabilityLow    -> 4500
      [] p = RepeatabilityMedium -> 6500
      [] p = RepeatabilityHigh   -> 6500
      [] OTHER                   -> 0

GetMeasureTime(p) ==
    CASE p = RepeatabilityLow    -> 4500
      [] p = RepeatabilityMedium -> 6500
      [] p = RepeatabilityHigh   -> 15500
      [] OTHER                   -> 0

(* Power-up time slept by Reset, in microseconds. *)
ResetPowerUpTime == 1500

---------------------------------------------------------------------------
(* Bytes *)

ByteMax == 255

RECURSIVE Pow2(_)
Pow2(k) == IF k = 0 THEN 1 ELSE 2 * Pow2(k - 1)

(* The element of a one-element set.  Written The({f(x) : x \in {e}}), it  *)
(* is f(e) with e evaluated once and x bound to its value: the way a local *)
(* variable of the code is written here.                                   *)
The(S) == CHOOSE x \in S : TRUE

(* a ^ b on 8-bit values, bit by bit *)
RECURSIVE XorBits(_, _, _)
XorBits(a, b, k) ==
    IF k = 0 THEN 0
    ELSE ((a + b) % 2) + 2 * XorBits(a \div 2, b \div 2, k - 1)

Xor8(a, b) == XorBits(a, b, 8)

---------------------------------------------------------------------------
(* Helpers of the package whose bodies are not among the source files      *)

(* calcCRC_SHT3X(seed, buf): CRC-8, polynomial 0x31, register kept to 8    *)
(* bits.  For each byte: xor into the register, then 8 times: shift left,  *)
(* and xor with 0x31 when the bit shifted out was set.                     *)
crcStep(reg) ==
    IF reg >= 128 THEN Xor8((reg * 2) % 256, 49) ELSE (reg * 2) % 256

RECURSIVE crcShift(_, _)
crcShift(reg, j) ==
    IF j = 0 THEN reg
    ELSE The({crcShift(r, j - 1) : r \in {crcStep(reg)}})

(* The eight shifts of one byte depend on the register alone: they are     *)
(* computed once for each of its 256 values.                               *)
crcByte == [reg \in 0..ByteMax |-> crcShift(reg, 8)]

RECURSIVE calcCRC_SHT3X(_, _)
calcCRC_SHT3X(seed, buf) ==
    IF buf = <<>> THEN seed
    ELSE The({calcCRC_SHT3X(r, Tail(buf)) :
                 r \in {crcByte[Xor8(seed, Head(buf))]}})

(* getU16BE(buf): the big-endian 16-bit value of two bytes *)
getU16BE(buf) == buf[1] * 256 + buf[2]

---------------------------------------------------------------------------
(* Errors.  A checksum error carries the received and the computed CRC.    *)

NoErr        == [kind |-> "nil", crc |-> 0, calc |-> 0]
TransportErr == [kind |-> "transport", crc |-> 0, calc |-> 0]
CRCErr(crc, calcCRC) == [kind |-> "crc", crc |-> crc, calc |-> calcCRC]

---------------------------------------------------------------------------
(* The transport (i2c.I2C), as the driver consumes it.                     *)
(*   dev.wok   the write of this call succeeds                             *)
(*   dev.rok   the read of this call succeeds                              *)
(*   dev.rbuf  the bytes the read delivers                                 *)
(*   dev.jit   by how much a sleep of this call overshoots                 *)

Event(ev, bytes, n, ok, t0, t1) ==
    [ev |-> ev, bytes |-> bytes, n |-> n, ok |-> ok, t0 |-> t0, t1 |-> t1]

WriteBytes(d, t, buf) ==
    [err |-> IF d.wok THEN NoErr ELSE TransportErr,
     log |-> <<Event("write", buf, Len(buf), d.wok, t, t)>>,
     t   |-> t]

ReadBytes(d, t, n) ==
    [err |-> IF d.rok THEN NoErr ELSE TransportErr,
     buf |-> d.rbuf,
     log |-> <<Event("read", d.rbuf, n, d.rok, t, t)>>,
     t   |-> t]

(* time.Sleep(dur): returns no earlier than dur after it was called;       *)
(* a zero or negative dur returns at once.                                 *)
Sleep(d, t, dur) ==
    LET t1 == IF dur > 0 THEN t + dur + d.jit ELSE t
    IN [log |-> <<Event("sleep", <<>>, dur, TRUE, t, t1)>>, t |-> t1]

(* readDataToStruct(i2c, byteCount, order, data): reads byteCount bytes    *)
(* and lays them out as blocks of {Data [2]byte; CRC byte}.  It fails when *)
(* the read fails or delivers fewer bytes than asked for.                  *)
readDataToStruct(d, t, byteCount) ==
    LET r  == ReadBytes(d, t, byteCount)
        ok == d.rok /\ Len(d.rbuf) = byteCount
    IN [err  |-> IF ok THEN NoErr ELSE TransportErr,
        data |-> IF ok
                 THEN [i \in 1..(byteCount \div 3) |->
                          [Data |-> <<d.rbuf[3 * i - 2], d.rbuf[3 * i - 1]>>,
                           CRC  |-> d.rbuf[3 * i]]]
                 ELSE <<>>,
        log  |-> r.log,
        t    |-> r.t]

---------------------------------------------------------------------------
(* The SHT3X struct and NewSHT3X                                           *)

NewSHT3X ==
    [lastStatusReg |-> "nil", lastCmd |-> <<>>,
     lastPeriodic |-> 0, lastPrecision |-> 0]

---------------------------------------------------------------------------
(* readDataWithCRCCheck                                                    *)

(* One turn of the loop: block i (0-based) is checked and, when its CRC    *)
(* matches, its word appended to `results`.                                *)
CheckResult(results, err) == [results |-> results, err |-> err]

RECURSIVE crcLoop_carry(_, _, _, _, _)
crcLoop_carry(data, i, blockCount, results, seed) ==
    IF i >= blockCount THEN CheckResult(results, NoErr)
    ELSE The({IF calcCRC # data[i + 1].CRC
              THEN CheckResult(<<>>, CRCErr(data[i + 1].CRC, calcCRC))
              ELSE crcLoop_carry(data, i + 1, blockCount,
                       Append(results, getU16BE(data[i + 1].Data)), calcCRC) :
              calcCRC \in {calcCRC_SHT3X(seed, data[i + 1].Data)}})

crcLoop_seedCarried(data, i, blockCount, results) ==
    crcLoop_carry(data, i, blockCount, results, 255)

RECURSIVE crcLoop_keep(_, _, _, _)
crcLoop_keep(data, i, blockCount, results) ==
    IF i >= blockCount THEN CheckResult(results, NoErr)
    ELSE The({IF calcCRC # data[i + 1].CRC
              THEN CheckResult(results, CRCErr(data[i + 1].CRC, calcCRC))
              ELSE crcLoop_keep(data, i + 1, blockCount,
                       Append(results, getU16BE(data[i + 1].Data))) :
              calcCRC \in {calcCRC_SHT3X(255, data[i + 1].Data)}})

RECURSIVE crcLoop(_, _, _, _)
crcLoop(data, i, blockCount, results) ==
    IF i >= blockCount THEN CheckResult(results, NoErr)
    ELSE The({IF calcCRC # data[i + 1].CRC
              THEN CheckResult(<<>>, CRCErr(data[i + 1].CRC, calcCRC))
              ELSE crcLoop(data, i + 1, blockCount,
                       Append(results, getU16BE(data[i + 1].Data))) :
              calcCRC \in {calcCRC_SHT3X(255, data[i + 1].Data)}})

ReadResult(results, err, log, t) ==
    [results |-> results, err |-> err, log |-> log, t |-> t]

(* A read error that is not looked at: the loop runs over whatever bytes   *)
(* were delivered, the missing ones being the zeroes of the fresh buffer.  *)
readDataWithCRCCheck_errIgnored(d, t, blockCount) ==
    LET r == ReadBytes(d, t, 3 * blockCount)
        byte(k) == IF k <= Len(d.rbuf) THEN d.rbuf[k] ELSE 0
        data == [i \in 1..blockCount |->
                    [Data |-> <<byte(3 * i - 2), byte(3 * i - 1)>>,
                     CRC  |-> byte(3 * i)]]
    IN The({ReadResult(c.results, c.err, r.log, r.t) :
               c \in {crcLoop(data, 0, blockCount, <<>>)}})

readDataWithCRCCheck(d, t, blockCount) ==
    The({IF r.err # NoErr
         THEN ReadResult(<<>>, r.err, r.log, r.t)
         ELSE The({ReadResult(c.results, c.err, r.log, r.t) :
                      c \in {crcLoop(r.data, 0, blockCount, <<>>)}}) :
         r \in {readDataToStruct(d, t, 3 * blockCount)}})

---------------------------------------------------------------------------
(* initiateMeasure                                                         *)

CmdResult(s, err, log, t) == [v |-> s, err |-> err, log |-> log, t |-> t]

initiateMeasure_recordFirst(s, d, t, cmd, precision) ==
    LET w     == WriteBytes(d, t, cmd)
        s2    == [s EXCEPT !.lastCmd = cmd]
        pause == GetMeasureTime(precision)
        z     == Sleep(d, w.t, pause)
    IN IF ~d.wok
       THEN CmdResult(s2, w.err, w.log, w.t)
       ELSE CmdResult(s2, NoErr, w.log \o z.log, z.t)

initiateMeasure(s, d, t, cmd, precision) ==
    LET w     == WriteBytes(d, t, cmd)
        s2    == [s EXCEPT !.lastCmd = cmd]
        pause == GetMeasureTime(precision)
        z     == Sleep(d, w.t, pause)
    IN IF w.err # NoErr
       THEN CmdResult(s, w.err, w.log, w.t)
       ELSE CmdResult(s2, NoErr, w.log \o z.log, z.t)

---------------------------------------------------------------------------
(* ReadUncompTemperatureAndHumidity                                        *)

(* The switch on precision; cmd stays nil when no case matches. *)
measureCmd_lowClockStretch(precision) ==
    CASE precision = RepeatabilityLow    -> CMD_SINGLE_MEASURE_LOW_CSE
      [] precision = RepeatabilityMedium -> CMD_SINGLE_MEASURE_MEDIUM
      [] precision = RepeatabilityHigh   -> CMD_SINGLE_MEASURE_HIGH
      [] OTHER                           -> <<>>

measureCmd(precision) ==
    CASE precision = RepeatabilityLow    -> CMD_SINGLE_MEASURE_LOW
      [] precision = RepeatabilityMedium -> CMD_SINGLE_MEASURE_MEDIUM
      [] precision = RepeatabilityHigh   -> CMD_SINGLE_MEASURE_HIGH
      [] OTHER                           -> <<>>

UncompResult(s, ut, urh, err, log, t) ==
    [v |-> s, ut |-> ut, urh |-> urh, err |-> err, log |-> log, t |-> t]

(* The data read, whatever initiateMeasure returned *)
readAfterMeasure(im, d) ==
    The({IF rd.err # NoErr
         THEN UncompResult(im.v, 0, 0, rd.err, im.log \o rd.log, rd.t)
         ELSE UncompResult(im.v, rd.results[1], rd.results[2], NoErr,
                           im.log \o rd.log, rd.t) :
         rd \in {readDataWithCRCCheck(d, im.t, 2)}})

ReadUncompTemperatureAndHumidity_errIgnored(s, d, t, precision) ==
    The({readAfterMeasure(im, d) :
         im \in {initiateMeasure(s, d, t, measureCmd(precision), precision)}})

ReadUncompTemperatureAndHumidity(s, d, t, precision) ==
    The({IF im.err # NoErr
         THEN UncompResult(im.v, 0, 0, im.err, im.log, im.t)
         ELSE readAfterMeasure(im, d) :
         im \in {initiateMeasure(s, d, t, measureCmd(precision), precision)}})

---------------------------------------------------------------------------
(* Reset                                                                   *)

Reset(s, d, t) ==
    LET cmd == CMD_RESET
        w   == WriteBytes(d, t, cmd)
        s2  == [s EXCEPT !.lastCmd = cmd]
        z   == Sleep(d, w.t, ResetPowerUpTime)
    IN IF w.err # NoErr
       THEN CmdResult(s, w.err, w.log, w.t)
       ELSE CmdResult(s2, NoErr, w.log \o z.log, z.t)

---------------------------------------------------------------------------
(* float32.  A value is [s, n, e], standing for s * n * 2^e with s the     *)
(* sign (1 or -1) and 0 <= n <= 2^24; every operation computes the exact   *)
(* result and rounds it once to 24 significant bits, ties to even, as      *)
(* IEEE-754 single precision does.  All intermediate integers stay below   *)
(* 2^31 for the ranges the converters use (operands below 512).            *)

F32(s, n, e) == [s |-> s, n |-> n, e |-> e]

(* Round (n + f) * 2^e to 24 bits, where 0 <= f < 1 and st says f > 0.     *)
(* g is the last bit shifted out, st whether anything below it was set.    *)
(* Needs n >= 2^24 whenever st holds on entry.                             *)
RECURSIVE f32Round(_, _, _, _, _)
f32Round(s, n, e, g, st) ==
    IF n >= 16777216
    THEN f32Round(s, n \div 2, e + 1, n % 2, st \/ g = 1)
    ELSE IF g = 1 /\ (st \/ n % 2 = 1)
         THEN F32(s, n + 1, e)
         ELSE F32(s, n, e)

(* float32(u) * k for a uint16 u and a small integer constant k:           *)
(* float32(u) is exact, the product is rounded.                            *)
F32MulInt(u, k) == f32Round(1, u * k, 0, 0, FALSE)

(* Long division by d: quotient bits are produced until there are 26,      *)
(* then the quotient is rounded, the remainder telling what was cut.       *)
RECURSIVE divBits(_, _, _, _)
divBits(q, r, e, d) ==
    IF q >= 33554432 THEN f32Round(1, q, e, 0, r > 0)
    ELSE divBits(2 * q + (IF 2 * r >= d THEN 1 ELSE 0), (2 * r) % d, e - 1, d)

(* x / d for x >= 0 and an integer constant d *)
F32DivInt(x, d) ==
    IF x.n = 0 THEN F32(1, 0, 0)
    ELSE divBits(x.n \div d, x.n % d, x.e, d)

(* x - c for 0 <= x < 512 and an integer constant 13 < c < 512, computed   *)
(* in units of 2^-22: x is cut to that unit, st telling whether bits were  *)
(* cut (only when x < 2, where the difference still has 26 bits).          *)
F32SubInt(x, c) ==
    LET sh == (0 - 22) - x.e
        xf == IF sh <= 0 THEN x.n * Pow2(0 - sh) ELSE x.n \div Pow2(sh)
        st == sh > 0 /\ x.n % Pow2(sh) # 0
        C  == c * 4194304
    IN IF xf >= C
       THEN f32Round(1, xf - C, 0 - 22, 0, st)
       ELSE f32Round(0 - 1, IF st THEN C - xf - 1 ELSE C - xf, 0 - 22, 0, st)

(* round32(value, 2): the float brought to two decimals, half away from    *)
(* zero; the result is given as its number of hundredths.  The body of     *)
(* round32 is not among the source files.                                  *)
round32(x, precision) ==
    LET p   == x.n * 100
        sh  == 0 - x.e
        mag == IF sh <= 0 THEN p * Pow2(0 - sh)
               ELSE IF sh >= 32 THEN 0
               ELSE IF sh = 31 THEN (IF p >= 1073741824 THEN 1 ELSE 0)
               ELSE (p \div Pow2(sh))
                    + (IF 2 * (p % Pow2(sh)) >= Pow2(sh) THEN 1 ELSE 0)
    IN x.s * mag

---------------------------------------------------------------------------
(* The converters.  0x10000 - 1 = 65535.                                   *)

uncompHumidityToRelativeHumidity(uh) ==
    The({round32(rh, 2) :
         rh \in {F32DivInt(a, 65535) : a \in {F32MulInt(uh, 100)}}})

uncompTemperatureToCelsius(ut) ==
    The({round32(temp, 2) :
         temp \in {F32SubInt(q, 45) :
                   q \in {F32DivInt(a, 65535) : a \in {F32MulInt(ut, 175)}}}})

uncompTemperatureToFarenheit(ut) ==
    The({round32(temp, 2) :
         temp \in {F32SubInt(q, 49) :
                   q \in {F32DivInt(a, 65535) : a \in {F32MulInt(ut, 315)}}}})

---------------------------------------------------------------------------
(* ReadTemperatureAndRelativeHumidity and its Fahrenheit twin              *)

PhysResult(u, temp, rh) ==
    [v |-> u.v, temp |-> temp, rh |-> rh, err |-> u.err,
     log |-> u.log, t |-> u.t]

ReadTemperatureAndRelativeHumidity(s, d, t, precision) ==
    The({IF u.err # NoErr
         THEN PhysResult(u, 0, 0)
         ELSE PhysResult(u, uncompTemperatureToCelsius(u.ut),
                         uncompHumidityToRelativeHumidity(u.urh)) :
         u \in {ReadUncompTemperatureAndHumidity(s, d, t, precision)}})

ReadTemperatureAndRelativeHumidityFarenheit(s, d, t, precision) ==
    The({IF u.err # NoErr
         THEN PhysResult(u, 0, 0)
         ELSE PhysResult(u, uncompTemperatureToFarenheit(u.ut),
                         uncompHumidityToRelativeHumidity(u.urh)) :
         u \in {ReadUncompTemperatureAndHumidity(s, d, t, precision)}})

---------------------------------------------------------------------------
(* What the bus can deliver                                                *)

(* Raw words the sensor is made to report: both ends of the scale and the   *)
(* mid-scale words 0x6666 and 0x8000.                                      *)
TestWords == {0, 26214, 32768, 65535}

Hi(w) == w \div 256
Lo(w) == w % 256

(* The CRC byte the sensor appends to a word *)
SensorCRC(w) == calcCRC_SHT3X(255, <<Hi(w), Lo(w)>>)

(* A 3-byte block on the wire: the word, and its CRC byte xor-ed with      *)
(* `damage` (0 leaves it intact).                                          *)
WireBlock(w, damage) == <<Hi(w), Lo(w), Xor8(SensorCRC(w), damage)>>

WireBlocks == {WireBlock(w, dmg) : w \in TestWords, dmg \in {0, 1}}

RECURSIVE Flatten(_)
Flatten(bs) == IF bs = <<>> THEN <<>> ELSE Head(bs) \o Flatten(Tail(bs))

(* Every full delivery of n blocks *)
FullReads(n) == {Flatten(bs) : bs \in [1..n -> WireBlocks]}

(* Deliveries that stop short: a prefix of an intact delivery *)
ShortReads(n) ==
    LET full == Flatten([i \in 1..n |-> WireBlock(26214, 0)])
    IN {SubSeq(full, 1, m) : m \in 0..(3 * n - 1)}

(* The transport's behaviour during a call that reads n blocks *)
ReadOutcomes(n) ==
    {[rok |-> TRUE, rbuf |-> b] : b \in FullReads(n) \cup ShortReads(n)}
        \cup {[rok |-> FALSE, rbuf |-> <<>>]}

Dev(wok, jit, r) == [wok |-> wok, jit |-> jit, rok |-> r.rok, rbuf |-> r.rbuf]

NoRead == [rok |-> TRUE, rbuf |-> <<>>]

(* A call whose write fails never reads: its read outcome is left out. *)
MeasureDevs ==
    {Dev(TRUE, jit, r) : jit \in 0..MaxJitter, r \in ReadOutcomes(2)}
        \cup {Dev(FALSE, jit, NoRead) : jit \in 0..MaxJitter}

WriteDevs ==
    {Dev(wok, jit, NoRead) : wok \in BOOLEAN, jit \in 0..MaxJitter}

ReadDevs(n) == {Dev(TRUE, 0, r) : r \in ReadOutcomes(n)}

IdleDev == Dev(TRUE, 0, NoRead)

(* Values a caller can pass as MeasureRepeatability (an int) *)
PrecisionArgs == (0 - 1)..MaxPrecisionArg

---------------------------------------------------------------------------
(* State machine of one session.  A call is made when the caller holds no  *)
(* pending result (call.op = "idle"); it runs to completion in one step    *)
(* and leaves what it did in call, dev, wire and ret; Return is the caller *)
(* taking the result, after which the next call can be made.               *)

Call(op, precision, blockCount, raw, bit) ==
    [op |-> op, precision |-> precision, blockCount |-> blockCount,
     raw |-> raw, bit |-> bit]

Ret(err, results, ut, urh, temp, rh, t) ==
    [err |-> err, results |-> results, ut |-> ut, urh |-> urh,
     temp |-> temp, rh |-> rh, t |-> t]

NoRet == Ret(NoErr, <<>>, 0, 0, 0, 0, 0)

Init ==
    /\ v = NewSHT3X
    /\ pre = NewSHT3X
    /\ call = Call("idle", 0, 0, 0, 0)
    /\ dev = IdleDev
    /\ wire = <<>>
    /\ ret = NoRet

CallReset ==
    /\ call.op = "idle"
    /\ \E d \in WriteDevs :
        \E r \in {Reset(v, d, 0)} :
           /\ v' = r.v
           /\ pre' = v
           /\ call' = Call("Reset", 0, 0, 0, 0)
           /\ dev' = d
           /\ wire' = r.log
           /\ ret' = Ret(r.err, <<>>, 0, 0, 0, 0, r.t)

CallReadUncomp ==
    /\ call.op = "idle"
    /\ \E d \in MeasureDevs, p \in PrecisionArgs :
        \E r \in {ReadUncompTemperatureAndHumidity(v, d, 0, p)} :
           /\ v' = r.v
           /\ pre' = v
           /\ call' = Call("ReadUncomp", p, 0, 0, 0)
           /\ dev' = d
           /\ wire' = r.log
           /\ ret' = Ret(r.err, <<>>, r.ut, r.urh, 0, 0, r.t)

CallReadCelsius ==
    /\ call.op = "idle"
    /\ \E d \in MeasureDevs, p \in PrecisionArgs :
        \E r \in {ReadTemperatureAndRelativeHumidity(v, d, 0, p)} :
           /\ v' = r.v
           /\ pre' = v
           /\ call' = Call("ReadCelsius", p, 0, 0, 0)
           /\ dev' = d
           /\ wire' = r.log
           /\ ret' = Ret(r.err, <<>>, 0, 0, r.temp, r.rh, r.t)

CallReadFarenheit ==
    /\ call.op = "idle"
    /\ \E d \in MeasureDevs, p \in PrecisionArgs :
        \E r \in {ReadTemperatureAndRelativeHumidityFarenheit(v, d, 0, p)} :
           /\ v' = r.v
           /\ pre' = v
           /\ call' = Call("ReadFarenheit", p, 0, 0, 0)
           /\ dev' = d
           /\ wire' = r.log
           /\ ret' = Ret(r.err, <<>>, 0, 0, r.temp, r.rh, r.t)

(* readDataWithCRCCheck called on its own, for any block count *)
CallReadData ==
    /\ call.op = "idle"
    /\ \E n \in 0..MaxBlockCount :
        \E d \in ReadDevs(n) :
            \E r \in {readDataWithCRCCheck(d, 0, n)} :
               /\ v' = v
               /\ pre' = v
               /\ call' = Call("readData", 0, n, 0, 0)
               /\ dev' = d
               /\ wire' = r.log
               /\ ret' = Ret(r.err, r.results, 0, 0, 0, 0, r.t)

Return ==
    /\ call.op # "idle"
    /\ call' = Call("idle", 0, 0, 0, 0)
    /\ pre' = v
    /\ dev' = IdleDev
    /\ wire' = <<>>
    /\ ret' = NoRet
    /\ UNCHANGED v

Next ==
    \/ Return
    \/ CallReset
    \/ CallReadUncomp
    \/ CallReadCelsius
    \/ CallReadFarenheit
    \/ CallReadData

Spec == Init /\ [][Next]_vars

---------------------------------------------------------------------------
(* Checksum trials: readDataWithCRCCheck on two blocks, one of them the    *)
(* word under trial (every 16-bit word), the other the data sheet's        *)
(* example 0xBEEF with its CRC 0x92.  The word under trial comes second    *)
(* (blockCount = 2 in `call` names its position) or first (1).             *)

WordMax == 65535

FlipBit(w, bit) ==
    IF (w \div Pow2(bit)) % 2 = 1 THEN w - Pow2(bit) ELSE w + Pow2(bit)

(* The two blocks, the trial block <<w, crc>> at position pos *)
ExampleBlock == WireBlock(48879, 0)

TrialRead(w, crc, pos) ==
    IF pos = 1
    THEN <<Hi(w), Lo(w), crc>> \o ExampleBlock
    ELSE ExampleBlock \o <<Hi(w), Lo(w), crc>>

InitCRC ==
    /\ v = NewSHT3X
    /\ pre = NewSHT3X
    /\ call \in {Call("word", 0, 0, w, 0) : w \in 0..WordMax}
    /\ dev = IdleDev
    /\ wire = <<>>
    /\ ret = NoRet

(* The block as the sensor sends it *)
ReadIntact ==
    /\ call.op = "word"
    /\ \E pos \in 1..2 :
        \E d \in {Dev(TRUE, 0, [rok |-> TRUE,
                     rbuf |-> TrialRead(call.raw, SensorCRC(call.raw), pos)])} :
          \E r \in {readDataWithCRCCheck(d, 0, 2)} :
            /\ call' = Call("intact", 0, pos, call.raw, 0)
            /\ dev' = d
            /\ wire' = r.log
            /\ ret' = Ret(r.err, r.results, 0, 0, 0, 0, r.t)
            /\ UNCHANGED <<v, pre>>

(* One data bit flipped on the way, the CRC byte as sent *)
ReadFlipped ==
    /\ call.op = "word"
    /\ \E pos \in 1..2, bit \in 0..15 :
        \E d \in {Dev(TRUE, 0, [rok |-> TRUE,
                     rbuf |-> TrialRead(FlipBit(call.raw, bit),
                                        SensorCRC(call.raw), pos)])} :
          \E r \in {readDataWithCRCCheck(d, 0, 2)} :
            /\ call' = Call("flipped", 0, pos, call.raw, bit)
            /\ dev' = d
            /\ wire' = r.log
            /\ ret' = Ret(r.err, r.results, 0, 0, 0, 0, r.t)
            /\ UNCHANGED <<v, pre>>

NextCRC ==
    \/ ReadIntact
    \/ ReadFlipped

SpecCRC == InitCRC /\ [][NextCRC]_vars

---------------------------------------------------------------------------
(* Conversion trials: each converter applied to every 16-bit raw word      *)

InitConv ==
    /\ v = NewSHT3X
    /\ pre = NewSHT3X
    /\ call \in {Call("raw", 0, 0, w, 0) : w \in 0..WordMax}
    /\ dev = IdleDev
    /\ wire = <<>>
    /\ ret = NoRet

ConvCelsius ==
    /\ call.op = "raw"
    /\ call' = Call("celsius", 0, 0, call.raw, 0)
    /\ ret' = Ret(NoErr, <<>>, call.raw, 0,
                  uncompTemperatureToCelsius(call.raw), 0, 0)
    /\ UNCHANGED <<v, pre, dev, wire>>

ConvFarenheit ==
    /\ call.op = "raw"
    /\ call' = Call("farenheit", 0, 0, call.raw, 0)
    /\ ret' = Ret(NoErr, <<>>, call.raw, 0,
                  uncompTemperatureToFarenheit(call.raw), 0, 0)
    /\ UNCHANGED <<v, pre, dev, wire>>

ConvHumidity ==
    /\ call.op = "raw"
    /\ call' = Call("humidity", 0, 0, call.raw, 0)
    /\ ret' = Ret(NoErr, <<>>, 0, call.raw,
                  0, uncompHumidityToRelativeHumidity(call.raw), 0)
    /\ UNCHANGED <<v, pre, dev, wire>>

NextConv ==
    \/ ConvCelsius
    \/ ConvFarenheit
    \/ ConvHumidity

SpecConv == InitConv /\ [][NextConv]_vars

---------------------------------------------------------------------------
(* Properties                                                              *)

MeasureOps == {"ReadUncomp", "ReadCelsius", "ReadFarenheit"}

WriteEvents == {i \in 1..Len(wire) : wire[i].ev = "write"}
ReadEvents  == {i \in 1..Len(wire) : wire[i].ev = "read"}

(* CRC-8 of a word as polynomial arithmetic, independent of the register   *)
(* loop: the remainder of (word xor 0xFF00) * x^8 divided by               *)
(* x^8 + x^5 + x^4 + 1 (0x131), the seed 0xFF being the xor on the first   *)
(* byte.                                                                   *)
RECURSIVE polyMod(_, _)
polyMod(x, bit) ==
    IF bit < 8 THEN x
    ELSE The({polyMod(y, bit - 1) :
              y \in {IF (x \div Pow2(bit)) % 2 = 1
                     THEN XorBits(x, 305 * Pow2(bit - 8), 24)
                     ELSE x}})

RefCRC(hi, lo) == polyMod(((255 - hi) * 256 + lo) * 256, 23)

(* C1: when the transport delivers all 3n bytes, readDataWithCRCCheck      *)
(* succeeds exactly when every block's third byte is the CRC-8 (seed 0xFF, *)
(* polynomial 0x31) of its two data bytes; it then returns the n           *)
(* big-endian words in block order; otherwise it returns a checksum error  *)
(* and no word at all, even when earlier blocks were valid.                *)
C1_ReadWordsAllOrNothing ==
    (call.op = "readData" /\ dev.rok /\ Len(dev.rbuf) = 3 * call.blockCount)
    => LET n       == call.blockCount
           good(i) == dev.rbuf[3 * i] =
                          RefCRC(dev.rbuf[3 * i - 2], dev.rbuf[3 * i - 1])
           allGood == \A i \in 1..n : good(i)
       IN /\ (ret.err = NoErr) <=> allGood
          /\ allGood =>
                /\ Len(ret.results) = n
                /\ \A i \in 1..n :
                      ret.results[i] =
                          dev.rbuf[3 * i - 2] * 256 + dev.rbuf[3 * i - 1]
          /\ ~allGood => (ret.err.kind = "crc" /\ ret.results = <<>>)

(* C1's case: three blocks, the first two valid, the third not *)
C1_Witness ==
    /\ call.op = "readData"
    /\ call.blockCount = 3
    /\ dev.rok
    /\ Len(dev.rbuf) = 9
    /\ dev.rbuf[3] = RefCRC(dev.rbuf[1], dev.rbuf[2])
    /\ dev.rbuf[6] = RefCRC(dev.rbuf[4], dev.rbuf[5])
    /\ dev.rbuf[9] # RefCRC(dev.rbuf[7], dev.rbuf[8])
    /\ ret.err.kind = "crc"
    /\ ret.results = <<>>

(* C2: when the transport's write fails, Reset and the measuring calls     *)
(* (and with them initiateMeasure) return the transport error, having made *)
(* exactly one write and no read.                                          *)
C2_WriteFailureStopsTheCall ==
    (call.op \in MeasureOps \cup {"Reset"} /\ ~dev.wok)
    => /\ ret.err = TransportErr
       /\ Len(wire) = 1
       /\ wire[1].ev = "write"
       /\ ReadEvents = {}
       /\ ret.ut = 0 /\ ret.urh = 0 /\ ret.temp = 0 /\ ret.rh = 0

C2_Witness ==
    /\ call.op = "ReadUncomp"
    /\ call.precision = RepeatabilityHigh
    /\ ~dev.wok
    /\ ret.err = TransportErr
    /\ Len(wire) = 1

(* The minimum conversion time of a precision, in microseconds *)
MinConversionTime(p) ==
    CASE p = 1 -> 4500
      [] p = 2 -> 6500
      [] p = 3 -> 15500

(* C3: a measuring call with precision Low, Medium or High does, in this   *)
(* order, one write, one wait and one read of 6 bytes, the read issued no  *)
(* earlier than the precision's conversion time after the write returned;  *)
(* a failed write is followed by nothing.  Reset returns no earlier than   *)
(* 1500 us after its successful write.                                     *)
C3_WriteWaitRead ==
    /\ (call.op \in MeasureOps /\ call.precision \in 1..3)
       => /\ Len(wire) >= 1
          /\ wire[1].ev = "write"
          /\ IF wire[1].ok
             THEN /\ Len(wire) = 3
                  /\ wire[2].ev = "sleep"
                  /\ wire[3].ev = "read"
                  /\ wire[3].n = 6
                  /\ wire[2].t0 >= wire[1].t1
                  /\ wire[3].t0 >= wire[2].t1
                  /\ wire[3].t0 - wire[1].t1
                        >= MinConversionTime(call.precision)
             ELSE Len(wire) = 1
    /\ (call.op = "Reset" /\ dev.wok)
       => /\ Len(wire) = 2
          /\ wire[1].ev = "write"
          /\ wire[2].ev = "sleep"
          /\ ret.t - wire[1].t1 >= 1500

C3_Witness ==
    /\ call.op = "ReadUncomp"
    /\ call.precision = 3
    /\ Len(wire) = 3
    /\ wire[1].ok
    /\ wire[3].ev = "read"
    /\ wire[3].t0 - wire[1].t1 >= 15500

(* C4: a read that fails, or delivers fewer bytes than were asked for,     *)
(* makes readDataWithCRCCheck and the measuring calls return the transport *)
(* error (not a checksum error, not success) with no raw word, and the     *)
(* read is not made again.                                                 *)
C4_ReadFailureIsTransportError ==
    (/\ call.op \in MeasureOps \cup {"readData"}
     /\ ReadEvents # {}
     /\ (~dev.rok \/ \E i \in ReadEvents : Len(dev.rbuf) < wire[i].n))
    => /\ ret.err = TransportErr
       /\ ret.results = <<>>
       /\ ret.ut = 0 /\ ret.urh = 0 /\ ret.temp = 0 /\ ret.rh = 0
       /\ Cardinality(ReadEvents) = 1

C4_Witness ==
    /\ call.op = "ReadUncomp"
    /\ dev.wok
    /\ dev.rok
    /\ Len(dev.rbuf) = 5
    /\ Cardinality(ReadEvents) = 1
    /\ ret.err = TransportErr

(* C5: for every 16-bit word, a block made of the word and its checksum    *)
(* (seed 0xFF) is accepted by readDataWithCRCCheck, wherever it stands     *)
(* among the blocks (the seed is applied to each block afresh), and with   *)
(* any one of the 16 data bits flipped and the checksum byte kept, the     *)
(* read fails with a checksum mismatch and returns no word.                *)
C5_ChecksumRoundTrip ==
    /\ call.op = "intact"
       => /\ ret.err = NoErr
          /\ ret.results = IF call.blockCount = 1
                           THEN <<call.raw, 48879>>
                           ELSE <<48879, call.raw>>
    /\ call.op = "flipped"
       => /\ ret.err.kind = "crc"
          /\ ret.results = <<>>

(* C5's case: the top bit of 0xBEEF flipped, its CRC 0x92 kept *)
C5_Witness ==
    /\ call.op = "flipped"
    /\ call.raw = 48879
    /\ call.bit = 15
    /\ call.blockCount = 2
    /\ dev.rbuf = <<190, 239, 146, 62, 239, 146>>
    /\ ret.err.kind = "crc"

(* The bytes of the commands, as the sensor expects them *)
ExpectedCmd(p) ==
    CASE p = 1 -> <<36, 22>>
      [] p = 2 -> <<36, 11>>
      [] p = 3 -> <<36, 0>>

(* C6: whatever the session went through before, a measuring call with     *)
(* precision Low writes 0x24 0x16, Medium 0x24 0x0B, High 0x24 0x00, and   *)
(* Reset writes 0x30 0xA2; no call ever writes a clock-stretching,         *)
(* periodic-fetch, ART or break command.                                   *)
C6_CommandSelection ==
    /\ (call.op \in MeasureOps /\ call.precision \in 1..3)
       => /\ Len(wire) >= 1
          /\ wire[1].ev = "write"
          /\ wire[1].bytes = ExpectedCmd(call.precision)
    /\ call.op = "Reset"
       => /\ Len(wire) >= 1
          /\ wire[1].ev = "write"
          /\ wire[1].bytes = <<48, 162>>
    /\ \A i \in WriteEvents :
          wire[i].bytes \notin {<<44, 6>>, <<44, 13>>, <<44, 16>>,
                                <<224, 0>>, <<43, 50>>, <<48, 147>>}
    /\ Cardinality(WriteEvents) <= 1

(* C6's case: a Low measurement by a session whose last command was the    *)
(* High one                                                                *)
C6_Witness ==
    /\ call.op \in MeasureOps
    /\ call.precision = 1
    /\ pre.lastCmd = <<36, 0>>
    /\ wire[1].bytes = <<36, 22>>

(* The linear transfer function mul * r / 65535 - sub in hundredths,       *)
(* rounded half away from zero, in exact integer arithmetic.               *)
RoundedQuotient(a, d) == (a \div d) + (IF 2 * (a % d) >= d THEN 1 ELSE 0)

ExactHundredths(r, mul, sub) ==
    LET a == r * mul * 100
        b == sub * 100 * 65535
    IN IF a >= b THEN RoundedQuotient(a - b, 65535)
       ELSE 0 - RoundedQuotient(b - a, 65535)

(* C7: for every 16-bit raw word the converters return the linear transfer *)
(* function rounded to two decimals, half away from zero:                  *)
(* Celsius r*175/65535 - 45, Fahrenheit r*315/65535 - 49, relative         *)
(* humidity r*100/65535.                                                   *)
C7_ConvertersExact ==
    /\ call.op = "celsius"
       => ret.temp = ExactHundredths(call.raw, 175, 45)
    /\ call.op = "farenheit"
       => ret.temp = ExactHundredths(call.raw, 315, 49)
    /\ call.op = "humidity"
       => ret.rh = ExactHundredths(call.raw, 100, 0)

(* C8: after a measuring call whose write succeeded the session's last     *)
(* command is the command written and its last precision the precision     *)
(* passed in; after a successful Reset the last command is 0x30 0xA2.      *)
C8_RecordsCommandAndPrecision ==
    /\ (call.op \in MeasureOps /\ call.precision \in 1..3 /\ dev.wok)
       => /\ v.lastCmd = ExpectedCmd(call.precision)
          /\ v.lastPrecision = call.precision
    /\ (call.op = "Reset" /\ dev.wok)
       => v.lastCmd = <<48, 162>>

(* C9: a call whose write fails leaves every field of the session as it    *)
(* was; a measuring call whose write succeeds and whose read or checksum   *)
(* then fails leaves the measurement command of that write as the last     *)
(* command, the other fields as they were.                                 *)
C9_FailureLeavesSession ==
    /\ (call.op \in MeasureOps \cup {"Reset"} /\ ~dev.wok)
       => v = pre
    /\ (call.op \in MeasureOps /\ dev.wok /\ ret.err # NoErr)
       => /\ v = [pre EXCEPT !.lastCmd = wire[1].bytes]
          /\ call.precision \in 1..3
                => v.lastCmd = ExpectedCmd(call.precision)

(* C9's case: the write of a measuring call fails in a session that has    *)
(* recorded a Reset                                                        *)
C9_Witness ==
    /\ call.op \in MeasureOps
    /\ call.precision = 1
    /\ ~dev.wok
    /\ pre.lastCmd = <<48, 162>>
    /\ v.lastCmd = <<48, 162>>

(* C10: whatever integer is passed as precision, the bytes written are one *)
(* of the three single-measure commands without clock stretching, and the  *)
(* read is issued no earlier than 4500 us after the write returned.        *)
C10_AnyPrecisionMeasures ==
    call.op \in MeasureOps
    => /\ Len(wire) >= 1
       /\ wire[1].ev = "write"
       /\ wire[1].bytes \in {<<36, 22>>, <<36, 11>>, <<36, 0>>}
       /\ \A i \in ReadEvents : wire[i].t0 - wire[1].t1 >= 4500

---------------------------------------------------------------------------
(* Further properties of the converters that do hold                       *)

(* The values the converters give at the ends and the middle of the scale: *)
(* 0x0000 -> -45.00 C, -49.00 F, 0.00 %RH; 0xFFFF -> 130.00 C, 266.00 F,   *)
(* 100.00 %RH; 0x6666 -> 25.00 C; 0x8000 -> 50.00 %RH.                     *)
ConvBoundaryValues ==
    /\ (call.op = "celsius" /\ call.raw = 0) => ret.temp = 0 - 4500
    /\ (call.op = "farenheit" /\ call.raw = 0) => ret.temp = 0 - 4900
    /\ (call.op = "humidity" /\ call.raw = 0) => ret.rh = 0
    /\ (call.op = "celsius" /\ call.raw = WordMax) => ret.temp = 13000
    /\ (call.op = "farenheit" /\ call.raw = WordMax) => ret.temp = 26600
    /\ (call.op = "humidity" /\ call.raw = WordMax) => ret.rh = 10000
    /\ (call.op = "celsius" /\ call.raw = 26214) => ret.temp = 2500
    /\ (call.op = "humidity" /\ call.raw = 32768) => ret.rh = 5000

(* No converter is ever more than one hundredth away from the exactly      *)
(* rounded value.                                                          *)
ConvWithinOneHundredth ==
    LET near(a, b) == a - b \in {0 - 1, 0, 1}
    IN /\ call.op = "celsius"
          => near(ret.temp, ExactHundredths(call.raw, 175, 45))
       /\ call.op = "farenheit"
          => near(ret.temp, ExactHundredths(call.raw, 315, 49))
       /\ call.op = "humidity"
          => near(ret.rh, ExactHundredths(call.raw, 100, 0))

(* ReadTemperatureAndRelativeHumidity and its Fahrenheit twin convert the  *)
(* first verified word as temperature and the second as humidity.          *)
WordOrder ==
    (call.op \in {"ReadCelsius", "ReadFarenheit"} /\ ret.err = NoErr)
    => /\ Len(dev.rbuf) = 6
       /\ ret.temp = IF call.op = "ReadCelsius"
                     THEN uncompTemperatureToCelsius(
                              dev.rbuf[1] * 256 + dev.rbuf[2])
                     ELSE uncompTemperatureToFarenheit(
                              dev.rbuf[1] * 256 + dev.rbuf[2])
       /\ ret.rh = uncompHumidityToRelativeHumidity(
                       dev.rbuf[4] * 256 + dev.rbuf[5])

====
